---- MODULE Spec2Model ----
(***************************************************************************)
(* Model of the ShortDebug derive macro (src/lib.rs).                      *)
(*                                                                         *)
(* The macro is a generator: from the parsed description of a type it      *)
(* produces the body of a Debug::fmt routine.  The model has two phases:   *)
(*   1. generation: custom_debug_derive walks the variants, and            *)
(*      generate_match_arm_body / generate_debug_builder_call build one    *)
(*      match arm per variant;                                             *)
(*   2. execution: the generated routine is run on a value of the type,    *)
(*      driving a DebugStruct / DebugTuple builder that writes tokens to   *)
(*      the formatter.                                                     *)
(* Generated code is represented as data (arms and statements), and the    *)
(* formatter output as a sequence of string tokens.                        *)
(***************************************************************************)
EXTENDS Integers, Sequences, FiniteSets, TLC

VARIABLES
    structure,            \* the synstructure::Structure handed to the derive
    pc,                   \* position in the generator / the generated routine
    vi,                   \* index of the variant each_variant is visiting
    name,                 \* generate_match_arm_body: let name
    debug_builder,        \* generate_match_arm_body: let debug_builder
    debug_builder_calls,  \* generate_match_arm_body: let mut debug_builder_calls
    match_arms,           \* custom_debug_derive: let match_arms (built so far)
    routine,              \* the arms of the generated fmt routine
    self,                 \* the value fmt is called on
    arm,                  \* index of the arm selected by `match *self`
    ci,                   \* index of the next statement of the arm body
    builder,              \* state of the DebugStruct / DebugTuple in the arm
    out,                  \* tokens written to the formatter
    log,                  \* calls made on the formatter and on debug_builder
    result                \* value returned by fmt

vars == <<structure, pc, vi, name, debug_builder, debug_builder_calls,
          match_arms, routine, self, arm, ci, builder, out, log, result>>

----------------------------------------------------------------------------
(* Bounds *)

MaxFields == 3      \* fields per variant of the type under derive
MaxSiblings == 2    \* other variants of an enum under derive
MaxVecLen == 2      \* elements of a Vec value
MaxSegs == 3        \* segments of a declared type path

----------------------------------------------------------------------------
(* Small helpers *)

None == <<>>
Some(x) == <<x>>

SeqsUpTo(S, n) == UNION {[1..k -> S] : k \in 0..n}

Range(s) == {s[i] : i \in 1..Len(s)}

----------------------------------------------------------------------------
(* The input of the derive: declared types, fields, variants, the type.   *)
(*                                                                         *)
(* A declared type (syn::Type) is [kind, segments, sem]: kind is the       *)
(* syntactic shape, segments the identifiers of a Type::Path, and sem what *)
(* the type really is once names and aliases are resolved, which the       *)
(* macro never sees but which decides the values the field can hold.       *)

Idents == {"Option", "Vec", "std", "option", "vec", "i32"}
Sems == {"option", "vec", "int"}

PathTy(segs, sem) == [kind |-> "Path", segments |-> segs, sem |-> sem]
TupleTy == [kind |-> "Tuple", segments |-> <<>>, sem |-> "tuple"]
ArrayTy == [kind |-> "Array", segments |-> <<>>, sem |-> "array"]
RefTy(sem) == [kind |-> "Reference", segments |-> <<>>, sem |-> sem]

\* Every declared type the classifier can be shown: any path of 1..MaxSegs
\* identifiers naming any of the semantic types (type aliases and
\* user-defined types may give any name to any type), and the non-path shapes.
AllTypes ==
    {PathTy(segs, sem) : segs \in SeqsUpTo(Idents, MaxSegs) \ {<<>>}, sem \in Sems}
      \cup {TupleTy, ArrayTy} \cup {RefTy(sem) : sem \in Sems}

\* The declared types used for the fields of the types under derive.
FieldTypes ==
    { PathTy(<<"Option">>, "option"),                  \* Option<i32>
      PathTy(<<"Vec">>, "vec"),                        \* Vec<i32>
      PathTy(<<"i32">>, "int"),                        \* i32
      PathTy(<<"std", "option", "Option">>, "option") } \* std::option::Option<i32>

\* User-defined types that shadow the wrapper names.
ShadowingTypes == {PathTy(<<"Option">>, "int"), PathTy(<<"Vec">>, "int")}

FieldNames == <<"a", "b", "c", "d", "e">>

\* syn::Field seen through BindingInfo: ident is None for a positional
\* field; binding is the index of the pattern binding that reads the field.
Field(style, i, ty) ==
    [ident |-> IF style = "Named" THEN Some(FieldNames[i]) ELSE None,
     ty |-> ty, binding |-> i]

Fields(style, tys) == [i \in 1..Len(tys) |-> Field(style, i, tys[i])]

\* VariantInfo: prefix is the enum's identifier (None for a struct).
Variant(id, prefix, style, tys) ==
    [ident |-> id, prefix |-> prefix, style |-> style,
     fields |-> Fields(style, tys)]

Styles == {"Named", "Unnamed", "Unit"}

FieldSeqs(style, types, n) ==
    IF style = "Unit" THEN {<<>>} ELSE SeqsUpTo(types, n)

EnumName == "Shape"

\* The other variants of an enum under derive: a no-field case, a case with
\* two positional fields, a case with named fields.
Siblings ==
    << Variant("Empty", Some(EnumName), "Unit", <<>>),
       Variant("Pair", Some(EnumName), "Unnamed",
               <<PathTy(<<"i32">>, "int"), PathTy(<<"Option">>, "option")>>),
       Variant("Rec", Some(EnumName), "Named",
               <<PathTy(<<"Option">>, "option"), PathTy(<<"Vec">>, "vec")>>),
       Variant("Wrap", Some(EnumName), "Unnamed",
               <<PathTy(<<"Vec">>, "vec")>>) >>

NSiblings == IF MaxSiblings < Len(Siblings) THEN MaxSiblings ELSE Len(Siblings)

InsertAt(s, k, x) == SubSeq(s, 1, k - 1) \o <<x>> \o SubSeq(s, k, Len(s))

\* Structure: a struct (one variant carrying the type's own name) ...
Structs(types, n) ==
    UNION { { [ident |-> "Config",
               variants |-> <<Variant("Config", None, st, tys)>>] :
                tys \in FieldSeqs(st, types, n) } : st \in Styles }

\* ... or an enum: a variant V placed anywhere among the sibling variants.
Enums(types, n) ==
    UNION { { [ident |-> EnumName,
               variants |-> InsertAt(SubSeq(Siblings, 1, NSiblings), k,
                                     Variant("V", Some(EnumName), st, tys))] :
                tys \in FieldSeqs(st, types, n), k \in 1..(NSiblings + 1) } :
            st \in Styles }

Structures ==
    Structs(FieldTypes, MaxFields) \cup Enums(FieldTypes, MaxFields)
      \cup Structs(ShadowingTypes, 1)

\* Types of one field, drawn from every declared type: the inputs of the
\* field classifier.
OneFieldStructures == Structs(AllTypes, 1)

----------------------------------------------------------------------------
(* Values of the type under derive, and their Debug rendering.             *)

\* A value of a field is the sequence of the integers it holds: empty for
\* None and for an empty Vec, one integer for Some(n) and for an i32.
Values(sem) ==
    CASE sem = "option" -> {None, Some(1)}
      [] sem = "vec" -> {[i \in 1..k |-> i + 1] : k \in 0..MaxVecLen}
      [] OTHER -> {<<7>>}

RECURSIVE ValueSeqs(_)
ValueSeqs(fields) ==
    IF fields = <<>> THEN {<<>>}
    ELSE { <<v>> \o rest : v \in Values(Head(fields).ty.sem),
                           rest \in ValueSeqs(Tail(fields)) }

\* The values of the type: an active variant and a value for each field.
SelfValues(st) ==
    UNION { { [variant |-> k, vals |-> vs] :
                vs \in ValueSeqs(st.variants[k].fields) } :
            k \in 1..Len(st.variants) }

RECURSIVE Join(_)
Join(toks) ==
    IF Len(toks) <= 1 THEN toks
    ELSE <<Head(toks), ", ">> \o Join(Tail(toks))

IntTokens(v) == [i \in 1..Len(v) |-> ToString(v[i])]

\* <T as Debug>::fmt, as tokens: None / Some(1) / [2, 3] / 7 / (7,)
DebugFmt(sem, v) ==
    CASE sem = "option" ->
           IF v = None THEN <<"None">>
           ELSE <<"Some(">> \o IntTokens(v) \o <<")">>
      [] sem \in {"vec", "array"} -> <<"[">> \o Join(IntTokens(v)) \o <<"]">>
      [] sem = "tuple" -> <<"(">> \o IntTokens(v) \o <<",)">>
      [] OTHER -> IntTokens(v)

\* The Debug rendering of the value bound to v by `if let Some(v) = ...`.
DebugFmtInner(v) == DebugFmt("int", v)

----------------------------------------------------------------------------
(* The generator.                                                          *)

\* One generated statement of an arm body: a call debug_builder.field(..),
\* unconditional or guarded; arg is what is passed as the value: the field
\* binding itself or the v bound by the `if let Some(v)` guard.
Stmt(guard, nm, b, arg) ==
    [guard |-> guard, name |-> nm, binding |-> b, arg |-> arg]

\* Mutant: the wrapper names are matched without regard to case.
Classify_IgnoreCase(ty) ==
    IF ty.kind = "Path"
    THEN IF Len(ty.segments) > 0 /\ ty.segments[1] \in {"Option", "option"}
         THEN "optional"
         ELSE IF Len(ty.segments) > 0 /\ ty.segments[1] \in {"Vec", "vec"}
         THEN "sequence"
         ELSE "plain"
    ELSE "plain"

\* Mutant: the last segment of the path is matched, not the first.
Classify_LastSegment(ty) ==
    IF ty.kind = "Path"
    THEN IF Len(ty.segments) > 0 /\ ty.segments[Len(ty.segments)] = "Option"
         THEN "optional"
         ELSE IF Len(ty.segments) > 0 /\ ty.segments[Len(ty.segments)] = "Vec"
         THEN "sequence"
         ELSE "plain"
    ELSE "plain"

\* The special-case test on the declared type of a named field.
Classify(ty) ==
    IF ty.kind = "Path"
    THEN IF Len(ty.segments) > 0 /\ ty.segments[1] = "Option" THEN "optional"
         ELSE IF Len(ty.segments) > 0 /\ ty.segments[1] = "Vec" THEN "sequence"
         ELSE "plain"
    ELSE "plain"

\* Mutant: the Option case passes the field itself, not the unwrapped v.
generate_debug_builder_call_KeepsWrapper(binding) ==
    IF binding.ident = None
    THEN Stmt("always", None, binding.binding, "binding")
    ELSE CASE Classify(binding.ty) = "optional" ->
                Stmt("if_some", binding.ident, binding.binding, "binding")
           [] Classify(binding.ty) = "sequence" ->
                Stmt("if_nonempty", binding.ident, binding.binding, "binding")
           [] OTHER ->
                Stmt("always", binding.ident, binding.binding, "binding")

\* Mutant: the Vec case is missing.
generate_debug_builder_call_NoVecCase(binding) ==
    IF binding.ident = None
    THEN Stmt("always", None, binding.binding, "binding")
    ELSE CASE Classify(binding.ty) = "optional" ->
                Stmt("if_some", binding.ident, binding.binding, "v")
           [] OTHER ->
                Stmt("always", binding.ident, binding.binding, "binding")

\* Mutant: the default case guards the field like a Vec when it can.
generate_debug_builder_call_GuardedDefault(binding) ==
    IF binding.ident = None
    THEN Stmt("always", None, binding.binding, "binding")
    ELSE CASE Classify(binding.ty) = "optional" ->
                Stmt("if_some", binding.ident, binding.binding, "v")
           [] Classify(binding.ty) = "sequence" ->
                Stmt("if_nonempty", binding.ident, binding.binding, "binding")
           [] binding.ty.sem = "option" ->
                Stmt("if_some", binding.ident, binding.binding, "v")
           [] OTHER ->
                Stmt("always", binding.ident, binding.binding, "binding")

\* Mutant: every field is printed unconditionally, as derive(Debug) does.
generate_debug_builder_call_Unconditional(binding) ==
    Stmt("always", binding.ident, binding.binding, "binding")

generate_debug_builder_call(binding) ==
    IF binding.ident = None
    THEN Stmt("always", None, binding.binding, "binding")
    ELSE CASE Classify(binding.ty) = "optional" ->
                Stmt("if_some", binding.ident, binding.binding, "v")
           [] Classify(binding.ty) = "sequence" ->
                Stmt("if_nonempty", binding.ident, binding.binding, "binding")
           [] OTHER ->
                Stmt("always", binding.ident, binding.binding, "binding")

\* Mutant: the name of the enclosing type is used when there is one.
VariantName_TypeName(variant) ==
    IF variant.prefix # None THEN variant.prefix[1] ELSE variant.ident

\* let name = variant.ast().ident.to_string();
VariantName(variant) == variant.ident

\* Mutant: only named fields select debug_struct.
SelectBuilder_UnitAsTuple(style) ==
    IF style = "Named" THEN "debug_struct" ELSE "debug_tuple"

\* Choose debug struct/tuple builder based on field style.
SelectBuilder(style) ==
    IF style \in {"Named", "Unit"} THEN "debug_struct" ELSE "debug_tuple"

\* Mutant: the call is inserted at the front.
Push_Front(calls, call) == <<call>> \o calls

\* debug_builder_calls.push(..)
Push(calls, call) == Append(calls, call)

\* The quoted arm body, under the pattern each_variant gives the variant.
Arm(variant, nm, b, calls) ==
    [pattern |-> variant.ident, builder |-> b, name |-> nm, calls |-> calls]

NoBuilder == [kind |-> "none", fields |-> 0]
NoSelf == [variant |-> 0, vals |-> <<>>]

Init0 ==
    /\ pc = "derive"
    /\ vi = 1
    /\ name = ""
    /\ debug_builder = ""
    /\ debug_builder_calls = <<>>
    /\ match_arms = <<>>
    /\ routine = <<>>
    /\ self = NoSelf
    /\ arm = 0
    /\ ci = 0
    /\ builder = NoBuilder
    /\ out = <<>>
    /\ log = <<>>
    /\ result = <<>>

Init == structure \in Structures /\ Init0

InitClassify == structure \in OneFieldStructures /\ Init0

Runtime == <<self, arm, ci, builder, out, log, result>>

\* each_variant enters generate_match_arm_body for the next variant.
ArmBegin ==
    /\ pc = "derive"
    /\ vi <= Len(structure.variants)
    /\ name' = VariantName(structure.variants[vi])
    /\ debug_builder' = SelectBuilder(structure.variants[vi].style)
    /\ debug_builder_calls' = <<>>
    /\ pc' = "bindings"
    /\ UNCHANGED <<structure, vi, match_arms, routine, Runtime>>

\* One iteration of `for binding in variant.bindings()`.
BindingStep ==
    /\ pc = "bindings"
    /\ Len(debug_builder_calls) < Len(structure.variants[vi].fields)
    /\ debug_builder_calls' =
         Push(debug_builder_calls,
              generate_debug_builder_call(
                  structure.variants[vi].fields[Len(debug_builder_calls) + 1]))
    /\ UNCHANGED <<structure, pc, vi, name, debug_builder, match_arms,
                   routine, Runtime>>

\* generate_match_arm_body returns the quoted body; each_variant adds the arm.
ArmEnd ==
    /\ pc = "bindings"
    /\ Len(debug_builder_calls) = Len(structure.variants[vi].fields)
    /\ match_arms' = Append(match_arms,
                            Arm(structure.variants[vi], name, debug_builder,
                                debug_builder_calls))
    /\ vi' = vi + 1
    /\ pc' = "derive"
    /\ UNCHANGED <<structure, name, debug_builder, debug_builder_calls,
                   routine, Runtime>>

\* structure.gen_impl: the arms become the body of `match *self`.
GenImpl ==
    /\ pc = "derive"
    /\ vi > Len(structure.variants)
    /\ routine' = match_arms
    /\ pc' = "generated"
    /\ UNCHANGED <<structure, vi, name, debug_builder, debug_builder_calls,
                   match_arms, Runtime>>

----------------------------------------------------------------------------
(* The generated routine, run on a value.                                  *)

FieldOf(st, k, b) == st.variants[k].fields[b]

\* The generated body type-checks: `if let Some(v) = field` needs an Option
\* and `field.is_empty()` needs a Vec.
StmtCompiles(variant, s) ==
    CASE s.guard = "if_some" -> variant.fields[s.binding].ty.sem = "option"
      [] s.guard = "if_nonempty" -> variant.fields[s.binding].ty.sem = "vec"
      [] OTHER -> TRUE

Compiles ==
    \A k \in 1..Len(routine) : \A j \in 1..Len(routine[k].calls) :
        StmtCompiles(structure.variants[k], routine[k].calls[j])

\* The guard of a generated statement, on the value v of its field.
Taken(s, v) ==
    CASE s.guard = "if_some" -> v # None
      [] s.guard = "if_nonempty" -> Len(v) > 0
      [] OTHER -> TRUE

\* The tokens of the value passed to debug_builder.field.
ArgTokens(s, ty, v) ==
    IF s.arg = "v" THEN DebugFmtInner(v) ELSE DebugFmt(ty.sem, v)

\* DebugStruct::field / DebugTuple::field: what one call writes.
FieldTokens(b, nm, toks) ==
    IF b.kind = "debug_struct"
    THEN (IF b.fields > 0 THEN <<", ">> ELSE <<" { ">>) \o nm \o <<": ">> \o toks
    ELSE (IF b.fields > 0 THEN <<", ">> ELSE <<"(">>) \o toks

\* DebugStruct::finish / DebugTuple::finish.
FinishTokens(b) ==
    IF b.fields = 0 THEN <<>>
    ELSE IF b.kind = "debug_struct" THEN <<" }">> ELSE <<")">>

LogEntry(op, nm, b, toks) == [op |-> op, name |-> nm, binding |-> b, val |-> toks]

\* The type under derive does not build: the generated body is ill-typed.
BuildFails ==
    /\ pc = "generated"
    /\ ~Compiles
    /\ pc' = "build_error"
    /\ UNCHANGED <<structure, vi, name, debug_builder, debug_builder_calls,
                   match_arms, routine, Runtime>>

\* fmt is called on some value of the type.
CallFmt ==
    /\ pc = "generated"
    /\ Compiles
    /\ \E s \in SelfValues(structure) : self' = s
    /\ pc' = "match"
    /\ UNCHANGED <<structure, vi, name, debug_builder, debug_builder_calls,
                   match_arms, routine, arm, ci, builder, out, log, result>>

\* `match *self` selects the arm whose pattern is the active variant, and
\* the arm opens the builder: let mut debug_builder = fmt.debug_xxx(name).
MatchArm ==
    /\ pc = "match"
    /\ \E k \in 1..Len(routine) :
         /\ routine[k].pattern = structure.variants[self.variant].ident
         /\ arm' = k
         /\ builder' = [kind |-> routine[k].builder, fields |-> 0]
         /\ out' = <<routine[k].name>>
         /\ log' = <<LogEntry(routine[k].builder, Some(routine[k].name), 0, <<>>)>>
    /\ ci' = 1
    /\ pc' = "body"
    /\ UNCHANGED <<structure, vi, name, debug_builder, debug_builder_calls,
                   match_arms, routine, self, result>>

\* The next generated statement of the arm body.
ExecStmt ==
    /\ pc = "body"
    /\ ci <= Len(routine[arm].calls)
    /\ LET s == routine[arm].calls[ci]
           v == self.vals[s.binding]
           toks == ArgTokens(s, FieldOf(structure, self.variant, s.binding).ty, v)
       IN  IF Taken(s, v)
           THEN /\ out' = out \o FieldTokens(builder, s.name, toks)
                /\ builder' = [builder EXCEPT !.fields = @ + 1]
                /\ log' = Append(log, LogEntry("field", s.name, s.binding, toks))
           ELSE UNCHANGED <<out, builder, log>>
    /\ ci' = ci + 1
    /\ UNCHANGED <<structure, pc, vi, name, debug_builder, debug_builder_calls,
                   match_arms, routine, self, arm, result>>

\* debug_builder.finish(), the value of the arm and of fmt.
Finish ==
    /\ pc = "body"
    /\ ci > Len(routine[arm].calls)
    /\ out' = out \o FinishTokens(builder)
    /\ log' = Append(log, LogEntry("finish", None, 0, <<>>))
    /\ result' = out'
    /\ pc' = "done"
    /\ UNCHANGED <<structure, vi, name, debug_builder, debug_builder_calls,
                   match_arms, routine, self, arm, ci, builder>>

Next ==
    \/ ArmBegin
    \/ BindingStep
    \/ ArmEnd
    \/ GenImpl
    \/ BuildFails
    \/ CallFmt
    \/ MatchArm
    \/ ExecStmt
    \/ Finish

Spec == Init /\ [][Next]_vars

SpecClassify == InitClassify /\ [][Next]_vars

----------------------------------------------------------------------------
(* Vocabulary of the properties.                                           *)

Done == pc = "done"
Running == pc \in {"body", "done"}
ActiveVariant == structure.variants[self.variant]
ActiveFields == ActiveVariant.fields

\* Positions in the log of the debug_builder.field calls made for binding b.
EntryIdx(b) == {i \in 1..Len(log) : log[i].op = "field" /\ log[i].binding = b}
FieldIdx == {i \in 1..Len(log) : log[i].op = "field"}
OpIdx(op) == {i \in 1..Len(log) : log[i].op = op}

Absent(f, v) == f.ty.sem = "option" /\ v = None
EmptySeq(f, v) == f.ty.sem = "vec" /\ v = <<>>

\* Binding b of the active variant was rendered exactly once, as entry e.
RenderedOnce(b, nm, toks) ==
    /\ Cardinality(EntryIdx(b)) = 1
    /\ \A i \in EntryIdx(b) : log[i].name = nm /\ log[i].val = toks

\* C2: a named field classified optional-wrapped is omitted (no entry, and
\* its name is not written) when its value is None, and rendered exactly
\* once as name: inner value, without the Some(..) wrapper, when it is Some.
C2_NamedOptional ==
    Done =>
      \A b \in 1..Len(ActiveFields) :
        LET f == ActiveFields[b]
            v == self.vals[b]
        IN  (f.ident # None /\ Classify(f.ty) = "optional") =>
              IF v = None
              THEN EntryIdx(b) = {} /\ f.ident[1] \notin Range(out)
              ELSE /\ RenderedOnce(b, f.ident, <<ToString(v[1])>>)
                   /\ f.ident[1] \in Range(out)
                   /\ \A i \in EntryIdx(b) : "Some(" \notin Range(log[i].val)

C2_Witness ==
    /\ Done
    /\ ActiveVariant.style = "Named"
    /\ \E b1, b2 \in 1..Len(ActiveFields) :
         /\ Classify(ActiveFields[b1].ty) = "optional" /\ self.vals[b1] = None
         /\ Classify(ActiveFields[b2].ty) = "optional" /\ self.vals[b2] = Some(1)
         /\ EntryIdx(b1) = {}
         /\ EntryIdx(b2) # {}

\* C3: a named field classified sequence-wrapped is omitted when the
\* sequence is empty, and rendered exactly once as name: [all elements]
\* when it is not.
C3_NamedSequence ==
    Done =>
      \A b \in 1..Len(ActiveFields) :
        LET f == ActiveFields[b]
            v == self.vals[b]
        IN  (f.ident # None /\ Classify(f.ty) = "sequence") =>
              IF Len(v) = 0
              THEN EntryIdx(b) = {} /\ f.ident[1] \notin Range(out)
              ELSE /\ RenderedOnce(b, f.ident,
                                   <<"[">> \o Join(IntTokens(v)) \o <<"]">>)
                   /\ f.ident[1] \in Range(out)
                   /\ \A i \in EntryIdx(b) : \A j \in 1..Len(v) :
                        ToString(v[j]) \in Range(log[i].val)

C3_Witness ==
    /\ Done
    /\ ActiveVariant.style = "Named"
    /\ \E b1, b2 \in 1..Len(ActiveFields) :
         /\ Classify(ActiveFields[b1].ty) = "sequence" /\ self.vals[b1] = <<>>
         /\ Classify(ActiveFields[b2].ty) = "sequence" /\ Len(self.vals[b2]) >= 2
         /\ EntryIdx(b1) = {}
         /\ EntryIdx(b2) # {}

\* C4: a field classified plain is rendered exactly once whatever the
\* values of the fields: under its name in a struct-style variant, as a
\* bare positional value in a tuple-style variant, with its full value.
C4_PlainAlways ==
    Done =>
      \A b \in 1..Len(ActiveFields) :
        LET f == ActiveFields[b]
            v == self.vals[b]
        IN  Classify(f.ty) = "plain" =>
              /\ RenderedOnce(b, f.ident, DebugFmt(f.ty.sem, v))
              /\ ActiveVariant.style = "Named" =>
                   f.ident # None /\ f.ident[1] \in Range(out)
              /\ ActiveVariant.style = "Unnamed" => f.ident = None

\* A plain field holding None, next to a suppressed field.
C4_Witness ==
    /\ Done
    /\ ActiveVariant.style = "Named"
    /\ \E b1, b2 \in 1..Len(ActiveFields) :
         /\ Classify(ActiveFields[b1].ty) = "plain"
         /\ Absent(ActiveFields[b1], self.vals[b1])
         /\ Cardinality(EntryIdx(b1)) = 1
         /\ Classify(ActiveFields[b2].ty) = "optional"
         /\ EntryIdx(b2) = {}

\* C5: the fields rendered so far are a subsequence of the declared fields
\* of the active variant: in declaration order, none twice.
C5_DeclarationOrder ==
    Running =>
      /\ \A i \in FieldIdx : log[i].binding \in 1..Len(ActiveFields)
      /\ \A i, j \in FieldIdx : i < j => log[i].binding < log[j].binding
      /\ (Done /\ ActiveVariant.style = "Named") =>
           LET printed == SelectSeq(out, LAMBDA t : t \in Range(FieldNames))
               entries == SelectSeq(log, LAMBDA e : e.op = "field")
           IN  printed = [i \in 1..Len(entries) |->
                            ActiveFields[entries[i].binding].ident[1]]

\* Three fields, the middle one suppressed, the outer two in order.
C5_Witness ==
    /\ Done
    /\ Len(ActiveFields) = 3
    /\ EntryIdx(2) = {}
    /\ [i \in 1..(Len(log) - 2) |-> log[i + 1].binding] = <<1, 3>>

\* C1: a positional field classified optional-wrapped or sequence-wrapped
\* is conditionally rendered: nothing when absent / empty, and the bare
\* inner value (resp. the sequence) when present / non-empty.
C1_PositionalConditional ==
    Done =>
      \A b \in 1..Len(ActiveFields) :
        LET f == ActiveFields[b]
            v == self.vals[b]
        IN  /\ (f.ident = None /\ Classify(f.ty) = "optional"
                  /\ f.ty.sem = "option") =>
                 IF v = None THEN EntryIdx(b) = {}
                 ELSE RenderedOnce(b, None, <<ToString(v[1])>>)
            /\ (f.ident = None /\ Classify(f.ty) = "sequence"
                  /\ f.ty.sem = "vec") =>
                 IF Len(v) = 0 THEN EntryIdx(b) = {}
                 ELSE RenderedOnce(b, None, DebugFmt("vec", v))

Generated ==
    UNION { {<<structure.variants[k].fields[j], match_arms[k].calls[j]>> :
                j \in 1..Len(match_arms[k].calls)} : k \in 1..Len(match_arms) }
      \cup
    (IF pc = "bindings"
     THEN {<<structure.variants[vi].fields[j], debug_builder_calls[j]>> :
              j \in 1..Len(debug_builder_calls)}
     ELSE {})

\* C7: the classifier is total with a fixed priority: a path whose outer
\* (first) identifier is Option is optional-wrapped, else one whose outer
\* identifier is Vec is sequence-wrapped, else plain; tuples, references
\* and arrays are plain; a statement is generated for every field.
C7_ClassifierTotal ==
    /\ \A g \in Generated :
         LET f == g[1]
             s == g[2]
             outer == IF f.ty.kind = "Path" THEN Head(f.ty.segments) ELSE ""
         IN  f.ident # None =>
               /\ s.guard \in {"if_some", "if_nonempty", "always"}
               /\ outer = "Option" => s.guard = "if_some"
               /\ (outer # "Option" /\ outer = "Vec") => s.guard = "if_nonempty"
               /\ outer \notin {"Option", "Vec"} => s.guard = "always"
               /\ f.ty.kind # "Path" => s.guard = "always"
    /\ pc \in {"generated", "build_error"} =>
         \A k \in 1..Len(structure.variants) :
           Len(routine[k].calls) = Len(structure.variants[k].fields)

\* a: &Option<i32>, a reference, is classified plain.
C7_Witness ==
    /\ pc = "generated"
    /\ \E g \in Generated :
         /\ g[1].ident # None
         /\ g[1].ty = RefTy("option")
         /\ g[2].guard = "always"

\* C8: the builder form depends on the field style alone: Named and Unit
\* select debug_struct, Unnamed selects debug_tuple.
C8_BuilderForm ==
    /\ \A k \in 1..Len(match_arms) :
         match_arms[k].builder =
           (CASE structure.variants[k].style = "Named" -> "debug_struct"
              [] structure.variants[k].style = "Unit" -> "debug_struct"
              [] structure.variants[k].style = "Unnamed" -> "debug_tuple")
    /\ Running =>
         /\ builder.kind = "debug_struct" <=> ActiveVariant.style # "Unnamed"
         /\ log[1].op = builder.kind

\* A unit variant and an empty positional variant ran under different builders.
C8_Witness ==
    /\ Done
    /\ ActiveVariant.style = "Unit"
    /\ log[1].op = "debug_struct"
    /\ \E k \in 1..Len(routine) :
         routine[k].builder = "debug_tuple" /\ routine[k].calls = <<>>

\* C9: one arm per variant; a run executes the arm of the active variant
\* only: one builder opened, under that variant's own name, only that
\* variant's fields emitted, one finish, last, whose result is returned.
C9_OneBranchPerVariant ==
    /\ pc \in {"generated", "build_error", "match", "body", "done"} =>
         /\ Len(routine) = Len(structure.variants)
         /\ \A k \in 1..Len(routine) :
              /\ routine[k].pattern = structure.variants[k].ident
              /\ routine[k].name = structure.variants[k].ident
    /\ Running =>
         /\ arm = self.variant
         /\ OpIdx("debug_struct") \cup OpIdx("debug_tuple") = {1}
         /\ log[1].name = Some(ActiveVariant.ident)
         /\ out[1] = ActiveVariant.ident
         /\ \A i \in FieldIdx :
              /\ log[i].binding \in 1..Len(ActiveFields)
              /\ log[i].name = ActiveFields[log[i].binding].ident
    /\ pc = "body" => OpIdx("finish") = {} /\ result = <<>>
    /\ Done =>
         /\ OpIdx("finish") = {Len(log)}
         /\ ci = Len(ActiveFields) + 1
         /\ result = out

\* The two-positional-field case of an enum, next to a no-field case.
C9_Witness ==
    /\ Done
    /\ Len(structure.variants) > 1
    /\ ActiveVariant.ident = "Pair"
    /\ self.vals = <<<<7>>, Some(1)>>
    /\ result = <<"Pair", "(", "7", ", ", "Some(", "1", ")", ")">>

\* C10: only the first segment of the declared path of a named field
\* counts: Option::.. is optional-wrapped and Vec::.. sequence-wrapped
\* whatever follows; any other first segment, std::option::Option and
\* std::vec::Vec included, is plain, so the field is always rendered, None
\* and the empty sequence in full notation.
C10_FirstSegmentOnly ==
    /\ \A g \in Generated :
         (g[1].ident # None /\ g[1].ty.kind = "Path") =>
           g[2].guard = (CASE g[1].ty.segments[1] = "Option" -> "if_some"
                           [] g[1].ty.segments[1] = "Vec" -> "if_nonempty"
                           [] OTHER -> "always")
    /\ Done =>
         \A b \in 1..Len(ActiveFields) :
           LET f == ActiveFields[b]
               v == self.vals[b]
           IN  (/\ f.ident # None
                /\ f.ty.kind = "Path"
                /\ f.ty.segments[1] \notin {"Option", "Vec"}) =>
                 /\ Cardinality(EntryIdx(b)) = 1
                 /\ \A i \in EntryIdx(b) :
                      /\ log[i].name = f.ident
                      /\ Absent(f, v) => log[i].val = <<"None">>
                      /\ (f.ty.sem = "option" /\ v # None) =>
                           log[i].val = <<"Some(", ToString(v[1]), ")">>
                      /\ EmptySeq(f, v) => log[i].val = <<"[", "]">>

\* a: std::option::Option<i32> holding None is printed as a: None.
C10_Witness ==
    /\ Done
    /\ Len(ActiveFields) = 1
    /\ ActiveFields[1].ty = PathTy(<<"std", "option", "Option">>, "option")
    /\ self.vals = <<None>>
    /\ out = <<"Config", " { ", "a", ": ", "None", " }">>

====
